---- MODULE Spec2Model ----
(***************************************************************************)
(* Study-session state machine of app/routes/study.tsx (StudyPage) and the *)
(* engine it talks to through AnkiConnectClient (app/lib/useAnkiConnect.ts)*)
(*                                                                         *)
(* Every async handler is a React useCallback closure: it reads the        *)
(* `session` of the render in which it was invoked and, after each await,  *)
(* continues with that captured value.  An operation in flight is a record *)
(* in the bag `ops` holding the captured session and the await it is       *)
(* suspended at.                                                           *)
(* Indices are 0-based as in the source; cardQueue[i] of the source is     *)
(* s.cardQueue[i + 1] here.                                                *)
(*                                                                         *)
(* Two further components have specifications of their own over the same   *)
(* variables: one CardContent instance (CardContentSpec, CardContentFair)  *)
(* and the note-type cache of useInitializeModels (ModelsSpec).  Each      *)
(* specification leaves the variables of the other components unchanged.   *)
(***************************************************************************)
EXTENDS Integers, Sequences, FiniteSets, Bags, TLC

\* ---- bounds -------------------------------------------------------------
MaxOps == 3
\* prop changes of one CardContent instance
MaxChanges == 3
\* components mounting useInitializeModels
MaxConsumers == 3
\* index of an indexed play directive
MaxIndex == 2
\* card sides shown one after the other while auto-play is followed
MaxRenders == 2

\* ---- values -------------------------------------------------------------
\* the cards of the collection the engine serves
Cards == {101, 102}
Eases == 1..4
FlagRed == 1
Queries == {"is:due", "deck:NoSuchDeck"}

NoSession == [none |-> TRUE]
NoCard == [null |-> TRUE]
NoError == "null"

\* the components that call useInitializeModels
Consumers == 1..MaxConsumers
NoCache == [null |-> TRUE]
NoHook == [pc |-> "unmounted"]
NoReturn == [kind |-> "pending"]

VARIABLES
    session,          \* useState<StudySessionState | null>
    isSessionActive,  \* useState(false)
    isLoading,        \* useState(false)
    error,            \* useState<string | null>
    ops,              \* async handlers suspended at an await
    started,          \* number of async handlers invoked so far
    graded,           \* engine: accepted grades, in order
    engSuspended,     \* engine: suspended card ids
    engBuried,        \* engine: buried card ids
    engFlags,         \* engine: flag of every card
    rejected,         \* the last step resumed a handler with a rejected request
    noop,             \* the last step was a jumpToCard call that returned at its guard
    \* one CardContent instance (components/study/CardContent)
    mounted,          \* its effects have run for the first render
    html,             \* prop html
    processedHtml,    \* useState(html)
    isProcessing,     \* useState(false)
    audioCache,       \* useRef(new Map()): file names with a cached payload
    passes,           \* processContent calls suspended at a media request
    changes,          \* number of renders with changed input so far
    requested,        \* file names asked of retrieveMediaFile so far
    \* note-type cache (lib/useAnkiConnect.ts 270-338)
    modelsCache,      \* let modelsCache: ModelsState | null
    hooks,            \* the useInitializeModels instance of every consumer
    engModels,        \* engine: note types, name -> id
    fetches,          \* modelNamesAndIds requests issued so far
    cacheWrites,      \* assignments to modelsCache so far
    \* one call of a function studied on its own
    call,             \* the function, its inputs and the await it stands at
    callResult,       \* what the call returned or threw
    \* auto-play of a CardContent instance (ThemeSwitcher.tsx 279-319)
    timer,            \* the 300 ms timeout of the auto-play effect is pending
    runs,             \* the calls of the timeout callback: those still running
                      \* and the latest one, oldest first
    \* useAnkiConnect in StudyPage (lib/useAnkiConnect.ts 48-95)
    isConnected,      \* useState(false)
    connectionError,  \* useState(null): the error of the hook
    probe             \* checkConnection: where the call made at mount stands

\* the state of StudyPage and of the engine
studyVars == <<session, isSessionActive, isLoading, error, ops, started,
               graded, engSuspended, engBuried, engFlags>>

\* StudyPage, the engine and the ghosts of their last step
pageVars == <<studyVars, rejected, noop>>

cardContentVars == <<mounted, html, processedHtml, isProcessing, audioCache,
                     passes, changes, requested>>

modelsVars == <<modelsCache, hooks, engModels, fetches, cacheWrites>>

callVars == <<call, callResult>>

autoPlayVars == <<timer, runs>>

connectionVars == <<isConnected, connectionError, probe>>

vars == <<pageVars, cardContentVars, modelsVars, callVars, autoPlayVars,
          connectionVars>>

\* what a step of one component leaves alone: the other components
outsidePage == <<cardContentVars, modelsVars, callVars, autoPlayVars,
                 connectionVars>>
outsideCardContent == <<pageVars, modelsVars, callVars, autoPlayVars,
                        connectionVars>>
outsideModels == <<pageVars, cardContentVars, callVars, autoPlayVars,
                   connectionVars>>
outsideCall == <<pageVars, cardContentVars, modelsVars, autoPlayVars,
                 connectionVars>>
outsideAutoPlay == <<pageVars, modelsVars, callVars, connectionVars>>

\* ---- engine -------------------------------------------------------------
RECURSIVE CountFor(_, _)
CountFor(log, id) ==
    IF log = <<>> THEN 0
    ELSE (IF Head(log).cardId = id THEN 1 ELSE 0) + CountFor(Tail(log), id)

\* the snapshot the engine returns for one card id
cardInfo(id) ==
    [cardId |-> id,
     reps |-> CountFor(graded, id),
     suspended |-> id \in engSuspended,
     flags |-> engFlags[id]]

\* batch snapshot request, answered in request order
cardsInfo(ids) == [i \in 1..Len(ids) |-> cardInfo(ids[i])]

\* card search of the engine: every card matches "is:due", none the other query
findCards(query) ==
    IF query = "is:due" THEN <<101, 102>> ELSE <<>>

\* ---- startSession helpers ----------------------------------------------
\* the due flags are not applied
filterDue_keepsAll(cardIds, dueStatus) == cardIds

RECURSIVE filterDue(_, _)
\* cardIds.filter((_, index) => dueStatus[index])
filterDue(cardIds, dueStatus) ==
    IF cardIds = <<>> THEN <<>>
    ELSE (IF Head(dueStatus) THEN <<Head(cardIds)>> ELSE <<>>)
         \o filterDue(Tail(cardIds), Tail(dueStatus))

CardListItem(card) == [cardId |-> card.cardId]

\* total counts the cards after the current one
newSession_totalRemaining(query, dueCardIds, allCardsInfo) ==
    [query |-> query,
     cardQueue |-> dueCardIds,
     cardList |-> [i \in 1..Len(allCardsInfo) |-> CardListItem(allCardsInfo[i])],
     currentIndex |-> 0,
     currentCard |-> allCardsInfo[1],
     showAnswer |-> FALSE,
     answeredCardIds |-> {},
     sessionStats |-> [total |-> Len(dueCardIds) - 1, studied |-> 0,
                       again |-> 0, hard |-> 0, good |-> 0, easy |-> 0]]

\* the first card is taken from the end of the batch
newSession_lastCard(query, dueCardIds, allCardsInfo) ==
    [query |-> query,
     cardQueue |-> dueCardIds,
     cardList |-> [i \in 1..Len(allCardsInfo) |-> CardListItem(allCardsInfo[i])],
     currentIndex |-> 0,
     currentCard |-> allCardsInfo[Len(allCardsInfo)],
     showAnswer |-> FALSE,
     answeredCardIds |-> {},
     sessionStats |-> [total |-> Len(dueCardIds), studied |-> 0,
                       again |-> 0, hard |-> 0, good |-> 0, easy |-> 0]]

newSession(query, dueCardIds, allCardsInfo) ==
    [query |-> query,
     cardQueue |-> dueCardIds,
     cardList |-> [i \in 1..Len(allCardsInfo) |-> CardListItem(allCardsInfo[i])],
     currentIndex |-> 0,
     currentCard |-> allCardsInfo[1],
     showAnswer |-> FALSE,
     answeredCardIds |-> {},
     sessionStats |-> [total |-> Len(dueCardIds), studied |-> 0,
                       again |-> 0, hard |-> 0, good |-> 0, easy |-> 0]]

\* ---- answerCard helpers -------------------------------------------------
easeLabels == <<"again", "hard", "good", "easy">>

\* bucket picked with the 1-based ease: easeLabels[ease] of the 0-based array
newStats_shiftedBucket(s, ease) ==
    LET easeLabel == easeLabels[(ease % 4) + 1]
        st == s.sessionStats
    IN  [[st EXCEPT !.studied = st.studied + 1]
            EXCEPT ![easeLabel] = st[easeLabel] + 1]

\* studied left out of the new stats object
newStats_bucketOnly(s, ease) ==
    LET easeLabel == easeLabels[ease]
        st == s.sessionStats
    IN  [st EXCEPT ![easeLabel] = st[easeLabel] + 1]

newStats(s, ease) ==
    LET easeLabel == easeLabels[ease]
        st == s.sessionStats
    IN  [[st EXCEPT !.studied = st.studied + 1]
            EXCEPT ![easeLabel] = st[easeLabel] + 1]

newAnsweredCardIds(s) == s.answeredCardIds \cup {s.currentCard.cardId}

hasNext(s) == s.currentIndex + 1 < Len(s.cardQueue)
\* the id at the current position is fetched again
nextCardId_current(s) == s.cardQueue[s.currentIndex + 1]

nextCardId(s) == s.cardQueue[s.currentIndex + 2]

\* ---- views of StudyPage -------------------------------------------------
StartView == ~isSessionActive
CompletedView ==
    isSessionActive /\ session # NoSession /\ session.currentCard = NoCard
ActiveView ==
    isSessionActive /\ session # NoSession /\ session.currentCard # NoCard

\* ---- in-flight bookkeeping ----------------------------------------------
InFlight == BagToSet(ops)
CanStart == started < MaxOps

Op(kind, pc, s, arg) ==
    [kind |-> kind, pc |-> pc, s |-> s, arg |-> arg,
     id |-> IF kind = "startSession" THEN started + 1 ELSE 0,
     cardIds |-> <<>>, dueStatus |-> <<>>, dueCardIds |-> <<>>]

\* a handler is invoked and runs up to its first await
Suspend(kind, pc, s, arg) ==
    /\ CanStart
    /\ ops' = ops (+) SetToBag({Op(kind, pc, s, arg)})
    /\ started' = started + 1

\* a handler returns
Finish(op) == ops' = ops (-) SetToBag({op})
\* a handler runs on to its next await
Become(op, next) == ops' = (ops (-) SetToBag({op})) (+) SetToBag({next})
Await(op, pc) == Become(op, [op EXCEPT !.pc = pc])

\* a step of a StudyPage handler other than the guard return of jumpToCard;
\* r: the step resumes a handler with a rejected request
Outcome(r) ==
    /\ rejected' = r
    /\ noop' = FALSE
    /\ UNCHANGED outsidePage

\* StudyPage after its first render, the engine before any request
StudyPageInit ==
    /\ session = NoSession
    /\ isSessionActive = FALSE
    /\ isLoading = FALSE
    /\ error = NoError
    /\ ops = EmptyBag
    /\ started = 0
    /\ graded = <<>>
    /\ engSuspended = {}
    /\ engBuried = {}
    /\ engFlags = [c \in Cards |-> 0]
    /\ rejected = FALSE
    /\ noop = FALSE

\* no card is shown: the start view renders no CardContent
NoCardContent ==
    /\ mounted = FALSE
    /\ html = <<>>
    /\ processedHtml = <<>>
    /\ isProcessing = FALSE
    /\ audioCache = {}
    /\ passes = {}
    /\ changes = 0
    /\ requested = {}

\* no consumer of the note types is mounted
NoModels ==
    /\ modelsCache = NoCache
    /\ hooks = [c \in Consumers |-> NoHook]
    /\ engModels = <<>>
    /\ fetches = 0
    /\ cacheWrites = 0

\* no function call is singled out
NoCall ==
    /\ call = [fn |-> "none"]
    /\ callResult = NoReturn

\* no auto-play is followed
NoAutoPlay ==
    /\ timer = FALSE
    /\ runs = <<>>

\* the probe of useAnkiConnect is not followed
NoProbe ==
    /\ isConnected = FALSE
    /\ connectionError = NoError
    /\ probe = "none"

Init ==
    StudyPageInit /\ NoCardContent /\ NoModels /\ NoCall /\ NoAutoPlay /\ NoProbe

\* ---- startSession (study.tsx 78-148) -----------------------------------
startSession(query) ==
    /\ Suspend("startSession", "findCards", NoSession, query)
    /\ isLoading' = TRUE
    /\ error' = NoError
    /\ Outcome(FALSE)
    /\ UNCHANGED <<session, isSessionActive, graded, engSuspended, engBuried, engFlags>>

\* start button: disabled={!queryInput.trim() || isLoading}
startSessionClick ==
    /\ StartView
    /\ ~isLoading
    /\ \E query \in Queries : startSession(query)

\* Enter in the query field: only queryInput.trim() is tested
startSessionEnter ==
    /\ StartView
    /\ \E query \in Queries : startSession(query)

\* the catch block of startSession / answerCard
\* the busy indicator is left set
failLoading_keepsBusy(op, message) ==
    /\ error' = message
    /\ Finish(op)
    /\ UNCHANGED <<session, isSessionActive, isLoading, started, graded, engSuspended, engBuried, engFlags>>

failLoading(op, message) ==
    /\ error' = message
    /\ isLoading' = FALSE
    /\ Finish(op)
    /\ UNCHANGED <<session, isSessionActive, started, graded, engSuspended, engBuried, engFlags>>

\* the empty result is reported but the handler runs on to the due check
startSession_findCards_noReturn(op) ==
    /\ op.kind = "startSession" /\ op.pc = "findCards"
    /\ \/ LET cardIds == findCards(op.arg) IN
          /\ Outcome(FALSE)
          /\ Become(op, [op EXCEPT !.pc = "areDue", !.cardIds = cardIds])
          /\ IF Len(cardIds) = 0
             THEN error' = "noCards" /\ isLoading' = FALSE
             ELSE UNCHANGED <<error, isLoading>>
          /\ UNCHANGED <<session, isSessionActive, started,
                         graded, engSuspended, engBuried, engFlags>>
       \/ Outcome(TRUE) /\ failLoading(op, "rpcError")

startSession_findCards(op) ==
    /\ op.kind = "startSession" /\ op.pc = "findCards"
    /\ \/ LET cardIds == findCards(op.arg) IN
          /\ Outcome(FALSE)
          /\ IF Len(cardIds) = 0
             THEN failLoading(op, "noCards")
             ELSE /\ Become(op, [op EXCEPT !.pc = "areDue", !.cardIds = cardIds])
                  /\ UNCHANGED <<session, isSessionActive, isLoading, error, started,
                                 graded, engSuspended, engBuried, engFlags>>
       \/ Outcome(TRUE) /\ failLoading(op, "rpcError")

startSession_areDue(op) ==
    /\ op.kind = "startSession" /\ op.pc = "areDue"
    /\ \/ \E dueStatus \in [1..Len(op.cardIds) -> BOOLEAN] :
            LET dueCardIds == filterDue(op.cardIds, dueStatus) IN
            /\ Outcome(FALSE)
            /\ IF Len(dueCardIds) = 0
               THEN failLoading(op, "noDue")
               ELSE /\ Become(op, [op EXCEPT !.pc = "cardsInfo",
                                                !.dueStatus = dueStatus,
                                                !.dueCardIds = dueCardIds])
                    /\ UNCHANGED <<session, isSessionActive, isLoading, error, started,
                                   graded, engSuspended, engBuried, engFlags>>
       \/ Outcome(TRUE) /\ failLoading(op, "rpcError")

startSession_cardsInfo(op) ==
    /\ op.kind = "startSession" /\ op.pc = "cardsInfo"
    /\ \/ /\ Outcome(FALSE)
          /\ session' = newSession(op.arg, op.dueCardIds,
                                   cardsInfo(op.dueCardIds)) @@ [sid |-> op.id]
          /\ isSessionActive' = TRUE
          /\ isLoading' = FALSE
          /\ Finish(op)
          /\ UNCHANGED <<error, started, graded, engSuspended, engBuried, engFlags>>
       \/ Outcome(TRUE) /\ failLoading(op, "rpcError")

\* ---- showAnswer (study.tsx 150-157) ------------------------------------
\* button rendered in the active view while the answer is hidden
showAnswer ==
    /\ ActiveView
    /\ ~session.showAnswer
    /\ ~isLoading
    /\ session' = [session EXCEPT !.showAnswer = TRUE]
    /\ Outcome(FALSE)
    /\ UNCHANGED <<isSessionActive, isLoading, error, ops, started,
                   graded, engSuspended, engBuried, engFlags>>

\* ---- advance or complete (study.tsx 182-201, 250-265, 277-292) ---------
advance(s, nextCard) ==
    [s EXCEPT !.currentIndex = s.currentIndex + 1,
              !.currentCard = nextCard,
              !.showAnswer = FALSE]

\* the index is advanced past the last position as well
complete_advancing(s) ==
    [s EXCEPT !.currentCard = NoCard, !.currentIndex = s.currentIndex + 1]

complete(s) == [s EXCEPT !.currentCard = NoCard]

\* ---- answerCard (study.tsx 159-210) ------------------------------------
answerCard(ease) ==
    /\ session # NoSession
    /\ IF session.currentCard = NoCard
       THEN \* session.currentCard!.cardId throws inside the try block
            /\ error' = "typeError"
            /\ isLoading' = FALSE
            /\ Outcome(FALSE)
            /\ UNCHANGED <<session, isSessionActive, ops, started,
                           graded, engSuspended, engBuried, engFlags>>
       ELSE /\ Suspend("answerCard", "answerCards", session, ease)
            /\ isLoading' = TRUE
            /\ Outcome(FALSE)
            /\ UNCHANGED <<session, isSessionActive, error,
                           graded, engSuspended, engBuried, engFlags>>

\* grade buttons: rendered in the active view once the answer is shown
answerCardClick ==
    /\ ActiveView
    /\ session.showAnswer
    /\ ~isLoading
    /\ \E ease \in Eases : answerCard(ease)

\* keydown effect: if (!session || !session.showAnswer || isLoading) return
answerCardKey ==
    /\ session # NoSession
    /\ session.showAnswer
    /\ ~isLoading
    /\ \E ease \in Eases : answerCard(ease)

answered(s, ease, next) ==
    [next EXCEPT !.answeredCardIds = newAnsweredCardIds(s),
                 !.sessionStats = newStats(s, ease)]

answerCard_answerCards(op) ==
    /\ op.kind = "answerCard" /\ op.pc = "answerCards"
    /\ \/ LET s == op.s IN
          /\ Outcome(FALSE)
          /\ graded' = Append(graded, [cardId |-> s.currentCard.cardId,
                                       ease |-> op.arg])
          /\ IF hasNext(s)
             THEN /\ Await(op, "cardInfo")
                  /\ UNCHANGED <<session, isLoading>>
             ELSE /\ session' = answered(s, op.arg, complete(s))
                  /\ isLoading' = FALSE
                  /\ Finish(op)
          /\ UNCHANGED <<isSessionActive, error, started, engSuspended, engBuried, engFlags>>
       \/ Outcome(TRUE) /\ failLoading(op, "rpcError")

answerCard_cardInfo(op) ==
    /\ op.kind = "answerCard" /\ op.pc = "cardInfo"
    /\ \/ LET s == op.s IN
          /\ Outcome(FALSE)
          /\ session' = answered(s, op.arg, advance(s, cardInfo(nextCardId(s))))
          /\ isLoading' = FALSE
          /\ Finish(op)
          /\ UNCHANGED <<isSessionActive, error, started, graded, engSuspended, engBuried, engFlags>>
       \/ Outcome(TRUE) /\ failLoading(op, "rpcError")

\* the catch blocks of toggleFlag / suspendCard / buryCard: setError only
failQuiet(op, message) ==
    /\ error' = message
    /\ Finish(op)
    /\ UNCHANGED <<session, isSessionActive, isLoading, started,
                   graded, engSuspended, engBuried, engFlags>>

\* ---- toggleFlag (study.tsx 212-242) ------------------------------------
toggleFlag(flag) ==
    /\ session # NoSession /\ session.currentCard # NoCard
    /\ Suspend("toggleFlag", "setCardFlag", session, flag)
    /\ Outcome(FALSE)
    /\ UNCHANGED <<session, isSessionActive, isLoading, error,
                   graded, engSuspended, engBuried, engFlags>>

\* flag button of the active view: onClick={() => toggleFlag(1)}
toggleFlagClick == ActiveView /\ toggleFlag(FlagRed)

\* AnkiConnectClient.setCardFlag: the native action, then the fallback
toggleFlag_setCardFlag(op) ==
    /\ op.kind = "toggleFlag" /\ op.pc = "setCardFlag"
    /\ \/ /\ Outcome(FALSE)
          /\ engFlags' = [engFlags EXCEPT ![op.s.currentCard.cardId] = op.arg]
          /\ Await(op, "cardInfo")
       \/ /\ Outcome(TRUE)
          /\ Await(op, "setSpecificValueOfCard")
          /\ UNCHANGED engFlags
    /\ UNCHANGED <<session, isSessionActive, isLoading, error, started,
                   graded, engSuspended, engBuried>>

toggleFlag_setSpecificValueOfCard(op) ==
    /\ op.kind = "toggleFlag" /\ op.pc = "setSpecificValueOfCard"
    /\ \/ /\ Outcome(FALSE)
          /\ engFlags' = [engFlags EXCEPT ![op.s.currentCard.cardId] = op.arg]
          /\ Await(op, "cardInfo")
          /\ UNCHANGED <<session, isSessionActive, isLoading, error, started,
                         graded, engSuspended, engBuried>>
       \/ Outcome(TRUE) /\ failQuiet(op, "rpcError")

\* the refreshed card is shown question side first
reflagged_hidesAnswer(s, updatedCard) ==
    [s EXCEPT !.currentCard = updatedCard, !.showAnswer = FALSE]

reflagged(s, updatedCard) == [s EXCEPT !.currentCard = updatedCard]

toggleFlag_cardInfo(op) ==
    /\ op.kind = "toggleFlag" /\ op.pc = "cardInfo"
    /\ \/ LET s == op.s IN
          /\ Outcome(FALSE)
          /\ session' = reflagged(s, cardInfo(s.currentCard.cardId))
          /\ error' = "flagSet"
          /\ Finish(op)
          /\ UNCHANGED <<isSessionActive, isLoading, started,
                         graded, engSuspended, engBuried, engFlags>>
       \/ Outcome(TRUE) /\ failQuiet(op, "rpcError")

\* ---- suspendCard / buryCard (study.tsx 244-296) ------------------------
suspendCard ==
    /\ session # NoSession /\ session.currentCard # NoCard
    /\ Suspend("suspendCard", "suspendCards", session, 0)
    /\ Outcome(FALSE)
    /\ UNCHANGED <<session, isSessionActive, isLoading, error,
                   graded, engSuspended, engBuried, engFlags>>

buryCard ==
    /\ session # NoSession /\ session.currentCard # NoCard
    /\ Suspend("buryCard", "buryCards", session, 0)
    /\ Outcome(FALSE)
    /\ UNCHANGED <<session, isSessionActive, isLoading, error,
                   graded, engSuspended, engBuried, engFlags>>

suspendCardClick == ActiveView /\ suspendCard
buryCardClick == ActiveView /\ buryCard

\* the session is completed although a next card exists
advanceOrComplete_completes(op) ==
    /\ session' = complete(op.s)
    /\ Finish(op)

\* continuation shared by both after the engine action succeeded
advanceOrComplete(op) ==
    LET s == op.s IN
    IF hasNext(s)
    THEN /\ Await(op, "cardInfo")
         /\ UNCHANGED session
    ELSE /\ session' = complete(s)
         /\ Finish(op)

suspendCard_suspendCards(op) ==
    /\ op.kind = "suspendCard" /\ op.pc = "suspendCards"
    /\ \/ /\ Outcome(FALSE)
          /\ engSuspended' = engSuspended \cup {op.s.currentCard.cardId}
          /\ advanceOrComplete(op)
          /\ UNCHANGED <<isSessionActive, isLoading, error, started,
                         graded, engBuried, engFlags>>
       \/ Outcome(TRUE) /\ failQuiet(op, "rpcError")

buryCard_buryCards(op) ==
    /\ op.kind = "buryCard" /\ op.pc = "buryCards"
    /\ \/ /\ Outcome(FALSE)
          /\ engBuried' = engBuried \cup {op.s.currentCard.cardId}
          /\ advanceOrComplete(op)
          /\ UNCHANGED <<isSessionActive, isLoading, error, started,
                         graded, engSuspended, engFlags>>
       \/ Outcome(TRUE) /\ failQuiet(op, "rpcError")

\* the cardInfo continuation of suspendCard and of buryCard
skipCard_cardInfo(op) ==
    /\ op.kind \in {"suspendCard", "buryCard"} /\ op.pc = "cardInfo"
    /\ \/ LET s == op.s IN
          /\ Outcome(FALSE)
          /\ session' = advance(s, cardInfo(nextCardId(s)))
          /\ Finish(op)
          /\ UNCHANGED <<isSessionActive, isLoading, error, started,
                         graded, engSuspended, engBuried, engFlags>>
       \/ Outcome(TRUE) /\ failQuiet(op, "rpcError")

\* ---- jumpToCard (study.tsx 298-320) ------------------------------------
\* the busy indicator is raised before the guard is tested
jumpToCard_busyFirst(index) ==
    /\ session # NoSession
    /\ isLoading' = TRUE
    /\ IF index = session.currentIndex
       THEN /\ noop' = TRUE
            /\ rejected' = FALSE
            /\ UNCHANGED outsidePage
            /\ UNCHANGED <<session, isSessionActive, error, ops, started,
                           graded, engSuspended, engBuried, engFlags>>
       ELSE /\ Suspend("jumpToCard", "cardInfo", session, index)
            /\ Outcome(FALSE)
            /\ UNCHANGED <<session, isSessionActive, error,
                           graded, engSuspended, engBuried, engFlags>>

jumpToCard(index) ==
    /\ session # NoSession
    /\ IF index = session.currentIndex
       THEN /\ noop' = TRUE
            /\ rejected' = FALSE
            /\ UNCHANGED outsidePage
            /\ UNCHANGED studyVars
       ELSE /\ Suspend("jumpToCard", "cardInfo", session, index)
            /\ isLoading' = TRUE
            /\ Outcome(FALSE)
            /\ UNCHANGED <<session, isSessionActive, error,
                           graded, engSuspended, engBuried, engFlags>>

\* session.cardList.map((item, index) => ... onClick={() => jumpToCard(index)})
jumpToCardClick ==
    /\ ActiveView
    /\ \E index \in 0..(Len(session.cardList) - 1) : jumpToCard(index)

\* the list position is stored 1-based
jumped_oneBased(s, index, card) ==
    [s EXCEPT !.currentIndex = index + 1, !.currentCard = card, !.showAnswer = FALSE]

\* the answer side stays revealed on the card jumped to
jumped_keepsAnswerShown(s, index, card) ==
    [s EXCEPT !.currentIndex = index, !.currentCard = card]

jumped(s, index, card) ==
    [s EXCEPT !.currentIndex = index, !.currentCard = card, !.showAnswer = FALSE]

jumpToCard_cardInfo(op) ==
    /\ op.kind = "jumpToCard" /\ op.pc = "cardInfo"
    /\ \/ LET s == op.s IN
          /\ Outcome(FALSE)
          /\ session' = jumped(s, op.arg, cardInfo(s.cardQueue[op.arg + 1]))
          /\ UNCHANGED error
       \/ /\ Outcome(TRUE)
          /\ error' = "rpcError"
          /\ UNCHANGED session
    /\ isLoading' = FALSE
    /\ Finish(op)
    /\ UNCHANGED <<isSessionActive, started, graded, engSuspended, engBuried, engFlags>>

\* ---- endSession (study.tsx 322-326) ------------------------------------
\* only the active flag is cleared
endSession_keepsSession ==
    /\ ActiveView \/ CompletedView
    /\ isSessionActive' = FALSE
    /\ Outcome(FALSE)
    /\ UNCHANGED <<session, isLoading, error, ops, started,
                   graded, engSuspended, engBuried, engFlags>>

\* "end session" of the active view, "return" of the completed view
endSession ==
    /\ ActiveView \/ CompletedView
    /\ isSessionActive' = FALSE
    /\ session' = NoSession
    /\ Outcome(FALSE)
    /\ UNCHANGED <<isLoading, error, ops, started,
                   graded, engSuspended, engBuried, engFlags>>

\* ---- error toast effect (study.tsx 68-76) ------------------------------
errorTimer ==
    /\ error # NoError
    /\ error' = NoError
    /\ Outcome(FALSE)
    /\ UNCHANGED <<session, isSessionActive, isLoading, ops, started,
                   graded, engSuspended, engBuried, engFlags>>

Next ==
    \/ startSessionClick
    \/ startSessionEnter
    \/ \E op \in InFlight : startSession_findCards(op)
    \/ \E op \in InFlight : startSession_areDue(op)
    \/ \E op \in InFlight : startSession_cardsInfo(op)
    \/ showAnswer
    \/ answerCardClick
    \/ answerCardKey
    \/ \E op \in InFlight : answerCard_answerCards(op)
    \/ \E op \in InFlight : answerCard_cardInfo(op)
    \/ toggleFlagClick
    \/ \E op \in InFlight : toggleFlag_setCardFlag(op)
    \/ \E op \in InFlight : toggleFlag_setSpecificValueOfCard(op)
    \/ \E op \in InFlight : toggleFlag_cardInfo(op)
    \/ suspendCardClick
    \/ buryCardClick
    \/ \E op \in InFlight : suspendCard_suspendCards(op)
    \/ \E op \in InFlight : buryCard_buryCards(op)
    \/ \E op \in InFlight : skipCard_cardInfo(op)
    \/ jumpToCardClick
    \/ \E op \in InFlight : jumpToCard_cardInfo(op)
    \/ endSession
    \/ errorTimer

Spec == Init /\ [][Next]_vars

\* ---- a session under way (study.tsx 150-320) ----------------------------
\* StudyPage right after startSession("is:due") has returned with both cards
\* due (119-141); no handler has been invoked on the session yet
SessionInit ==
    /\ graded = <<>>
    /\ engSuspended = {}
    /\ engBuried = {}
    /\ engFlags = [c \in Cards |-> 0]
    /\ session = newSession("is:due", findCards("is:due"),
                            cardsInfo(findCards("is:due"))) @@ [sid |-> 1]
    /\ isSessionActive = TRUE
    /\ isLoading = FALSE
    /\ error = NoError
    /\ ops = EmptyBag
    /\ started = 0
    /\ rejected = FALSE
    /\ noop = FALSE
    /\ NoCardContent
    /\ NoModels
    /\ NoCall
    /\ NoAutoPlay
    /\ NoProbe

\* what the active view offers for grading, moving and removing cards
SessionNext ==
    \/ showAnswer
    \/ answerCardClick
    \/ answerCardKey
    \/ \E op \in InFlight : answerCard_answerCards(op)
    \/ \E op \in InFlight : answerCard_cardInfo(op)
    \/ suspendCardClick
    \/ buryCardClick
    \/ \E op \in InFlight : suspendCard_suspendCards(op)
    \/ \E op \in InFlight : buryCard_buryCards(op)
    \/ \E op \in InFlight : skipCard_cardInfo(op)
    \/ jumpToCardClick
    \/ \E op \in InFlight : jumpToCard_cardInfo(op)

SessionSpec == SessionInit /\ [][SessionNext]_vars

\* ---- the start view and the probe of useAnkiConnect -----------------------
\* (study.tsx 58, 329-333, 434-450; lib/useAnkiConnect.ts 48-95)

\* await client.version() of the checkConnection call made at mount settles
\* (58-79); the render that follows runs the effect on
\* [connectionError, isConnected] of StudyPage (329-333)
checkConnection_version(connected) ==
    /\ probe = "version"
    /\ probe' = "done"
    /\ isConnected' = connected
    /\ IF connected
       THEN UNCHANGED <<connectionError, error>>
       ELSE /\ connectionError' = "CONNECTION_ERROR"
            /\ error' = "connectionFailed"
    /\ UNCHANGED <<session, isSessionActive, isLoading, ops, started, graded,
                   engSuspended, engBuried, engFlags, rejected, noop,
                   cardContentVars, modelsVars, callVars, autoPlayVars>>

\* StudyPage after its first render and its effects: checkConnection is
\* awaiting client.version() (81-86) and, isConnected being false, the
\* effect has set the connection message (329-333)
ConnectionInit ==
    /\ session = NoSession
    /\ isSessionActive = FALSE
    /\ isLoading = FALSE
    /\ error = "connectionFailed"
    /\ ops = EmptyBag
    /\ started = 0
    /\ graded = <<>>
    /\ engSuspended = {}
    /\ engBuried = {}
    /\ engFlags = [c \in Cards |-> 0]
    /\ rejected = FALSE
    /\ noop = FALSE
    /\ NoCardContent
    /\ NoModels
    /\ NoCall
    /\ NoAutoPlay
    /\ isConnected = FALSE
    /\ connectionError = NoError
    /\ probe = "version"

\* the probe and what the start view offers
ConnectionNext ==
    \/ \E connected \in BOOLEAN : checkConnection_version(connected)
    \/ startSessionClick
    \/ startSessionEnter
    \/ \E op \in InFlight : startSession_findCards(op)
    \/ \E op \in InFlight : startSession_areDue(op)
    \/ \E op \in InFlight : startSession_cardsInfo(op)
    \/ endSession
    \/ errorTimer

ConnectionSpec == ConnectionInit /\ [][ConnectionNext]_vars

\* ========================================================================
\* CardContent (app/components/ThemeSwitcher.tsx 37-333)
\* ========================================================================
\* Card markup is a sequence of nodes; a node is its kind and the media file
\* it names ("" for none):
\*   text        markup without media
\*   sound       the directive [sound:f]
\*   audio, img  an element whose src is the relative file name f
\*   button      the play button createAudioButton returns, with its
\*               <audio src="data:..."> payload of f
\*   missing     the span createAudioButton returns when f has no payload
\*   audioData, imgData   the element with src rewritten to the data URI of f
Node(kind, file) == [t |-> kind, f |-> file]

\* the sides of the cards shown one after the other in the same instance
\* a play node stands for [anki:play:side:n]; its f is the file name that
\* extractAudioFilename recovers for it, "" when it recovers none (89-91)
QuestionA == <<Node("sound", "a.mp3"), Node("text", "")>>
QuestionB == <<Node("img", "p.png"), Node("play", "")>>
AnswerB == <<Node("play", "b.mp3"), Node("audio", "c.ogg")>>
Htmls == {QuestionA, QuestionB, AnswerB}

\* what client.retrieveMediaFile can do: payload, null (no such file), throw
Outcomes == {"data", "null", "throw"}

\* the node a media request turns node n into
\*   sound, play: createAudioButton (169-217); audio: 122-139; img: 141-159
resolveNode(n, outcome) ==
    IF n.t = "sound" \/ (n.t = "play" /\ n.f # "")
    THEN (IF outcome = "data" THEN Node("button", n.f) ELSE Node("missing", n.f))
    ELSE IF n.t = "audio" /\ outcome = "data" THEN Node("audioData", n.f)
    ELSE IF n.t = "img" /\ outcome = "data" THEN Node("imgData", n.f)
    ELSE n

\* the markups a complete pass over h can end with, one outcome per node
Resolutions(h) ==
    {[i \in 1..Len(h) |-> resolveNode(h[i], o[i])] : o \in [1..Len(h) -> Outcomes]}

RECURSIVE indicesOf(_, _, _)
\* positions of the nodes of one kind from position i on, in document order
indicesOf(content, kind, i) ==
    IF i > Len(content) THEN <<>>
    ELSE (IF content[i].t = kind THEN <<i>> ELSE <<>>)
         \o indicesOf(content, kind, i + 1)

\* the order in which processContent visits the nodes: the sound directives
\* (69-80), the play directives a file name is recovered for (82-101), then
\* the audio elements (113-134), then the img elements (136-157)
visitOrder(content) ==
    indicesOf(content, "sound", 1)
        \o SelectSeq(indicesOf(content, "play", 1), LAMBDA i : content[i].f # "")
        \o indicesOf(content, "audio", 1)
        \o indicesOf(content, "img", 1)

\* a processContent call on the html of its render
newPass(h, id) == [id |-> id, html |-> h, content |-> h, todo |-> visitOrder(h)]

RECURSIVE runOn(_, _)
\* processContent runs on without a media request while the next node is a
\* sound directive whose payload is cached (171-179)
runOn(pass, cache) ==
    IF pass.todo = <<>> THEN pass
    ELSE LET i == Head(pass.todo)
             n == pass.content[i]
         IN  IF n.t \in {"sound", "play"} /\ n.f \in cache
             THEN runOn([pass EXCEPT !.content[i] = resolveNode(n, "data"),
                                     !.todo = Tail(pass.todo)], cache)
             ELSE pass

\* processContent from where it stands to its next media request, or to its
\* end: setProcessedHtml(tempDiv.innerHTML); setIsProcessing(false) (161-162)
processContent(pass, cache, others) ==
    LET next == runOn(pass, cache) IN
    IF next.todo = <<>>
    THEN /\ processedHtml' = next.content
         /\ isProcessing' = FALSE
         /\ passes' = others
    ELSE /\ passes' = others \cup {next}
         /\ UNCHANGED <<processedHtml, isProcessing>>

\* the two effects of a render with prop html = h, isProcessing as rendered:
\*   [html]: setIsProcessing(false); setProcessedHtml(html)             (52-55)
\*   [html, client, cardInfo]: if (!client || isProcessing) return;
\*                             processContent()                      (57-61, 276)
htmlEffects(h, id) ==
    IF isProcessing
    THEN /\ isProcessing' = FALSE
         /\ processedHtml' = h
         /\ UNCHANGED passes
    ELSE LET pass == runOn(newPass(h, id), audioCache) IN
         IF pass.todo = <<>>
         THEN /\ processedHtml' = pass.content
              /\ isProcessing' = FALSE
              /\ UNCHANGED passes
         ELSE /\ processedHtml' = h
              /\ isProcessing' = TRUE
              /\ passes' = passes \cup {pass}

\* every pass newly suspended in a step has issued one retrieveMediaFile
\* request, for the file of the node it stands at
Requested ==
    requested' = requested \cup {p.content[Head(p.todo)].f : p \in passes' \ passes}

\* first render: useState(html), then both effects
CardContent_mount ==
    /\ ~mounted
    /\ mounted' = TRUE
    /\ htmlEffects(html, 0)
    /\ Requested
    /\ UNCHANGED <<html, audioCache, changes, outsideCardContent>>

\* the parent renders the instance with another card side
CardContent_htmlChanged(h) ==
    /\ mounted
    /\ changes < MaxChanges
    /\ h # html
    /\ html' = h
    /\ changes' = changes + 1
    /\ htmlEffects(h, changes + 1)
    /\ Requested
    /\ UNCHANGED <<mounted, audioCache, outsideCardContent>>

\* cardInfo={currentCard} is a new object with the same sides (a refetched
\* snapshot): only the effect on [html, client, cardInfo] runs again
CardContent_cardInfoChanged ==
    /\ mounted
    /\ changes < MaxChanges
    /\ ~isProcessing
    /\ changes' = changes + 1
    /\ LET pass == runOn(newPass(html, changes + 1), audioCache) IN
       IF pass.todo = <<>>
       THEN /\ processedHtml' = pass.content
            /\ UNCHANGED <<isProcessing, passes>>
       ELSE /\ isProcessing' = TRUE
            /\ passes' = passes \cup {pass}
            /\ UNCHANGED processedHtml
    /\ Requested
    /\ UNCHANGED <<mounted, html, audioCache, outsideCardContent>>

\* a pass that a thrown request ends: nothing is committed
processContent_retrieveMediaFile_aborts(pass, outcome) ==
    LET i == Head(pass.todo)
        n == pass.content[i]
        cache == IF n.t \in {"sound", "play"} /\ outcome = "data"
                 THEN audioCache \cup {n.f}
                 ELSE audioCache
    IN  /\ audioCache' = cache
        /\ IF outcome = "throw"
           THEN /\ passes' = passes \ {pass}
                /\ UNCHANGED <<processedHtml, isProcessing>>
           ELSE processContent([pass EXCEPT !.content[i] = resolveNode(n, outcome),
                                           !.todo = Tail(pass.todo)],
                               cache, passes \ {pass})
        /\ Requested
        /\ UNCHANGED <<mounted, html, changes, outsideCardContent>>

\* the media request a pass is suspended at returns
processContent_retrieveMediaFile(pass, outcome) ==
    LET i == Head(pass.todo)
        n == pass.content[i]
        cache == IF n.t \in {"sound", "play"} /\ outcome = "data"
                 THEN audioCache \cup {n.f}
                 ELSE audioCache
    IN  /\ audioCache' = cache
        /\ processContent([pass EXCEPT !.content[i] = resolveNode(n, outcome),
                                       !.todo = Tail(pass.todo)],
                          cache, passes \ {pass})
        /\ Requested
        /\ UNCHANGED <<mounted, html, changes, outsideCardContent>>

CardContentInit ==
    /\ StudyPageInit
    /\ NoModels
    /\ NoCall
    /\ NoAutoPlay
    /\ NoProbe
    /\ mounted = FALSE
    /\ html \in Htmls
    /\ processedHtml = html
    /\ isProcessing = FALSE
    /\ audioCache = {}
    /\ passes = {}
    /\ changes = 0
    /\ requested = {}

CardContentNext ==
    \/ CardContent_mount
    \/ \E h \in Htmls : CardContent_htmlChanged(h)
    \/ CardContent_cardInfoChanged
    \/ \E pass \in passes, outcome \in Outcomes :
          processContent_retrieveMediaFile(pass, outcome)

CardContentSpec == CardContentInit /\ [][CardContentNext]_vars

\* every media request returns (AnkiConnectClient.request settles on the
\* response, on a network error or on its timeout) and effects run after the
\* render that scheduled them
CardContentFair ==
    /\ CardContentSpec
    /\ WF_vars(CardContent_mount)
    /\ WF_vars(\E pass \in passes, outcome \in Outcomes :
                  processContent_retrieveMediaFile(pass, outcome))

\* ========================================================================
\* Note-type cache (app/lib/useAnkiConnect.ts 270-338)
\* ========================================================================
\* what the engine can hold: no note type, one, two
ModelSets == {<<>>, <<"Basic">>, <<"Basic", "Cloze">>}

\* the id of a note type is its position in the engine's list
nameOf(id) == engModels[id]

\* client.modelNamesAndIds(): Record<name, id>
modelNamesAndIds ==
    [name \in {engModels[i] : i \in 1..Len(engModels)}
       |-> CHOOSE i \in 1..Len(engModels) : engModels[i] = name]

\* Object.values(modelNameToId)
modelIdsOf(modelNameToId) == {modelNameToId[name] : name \in DOMAIN modelNameToId}

\* client.findModelsById(modelIds), then models.map(model => ({...model,
\* id: model.id, name: model.name}))
findModelsById(modelIds) == {[id |-> id, name |-> nameOf(id)] : id \in modelIds}

\* useState(modelsCache || {models: [], ..., initialized: false})
initialModelsState ==
    IF modelsCache # NoCache THEN modelsCache
    ELSE [models |-> {}, modelNameToId |-> <<>>, isLoading |-> FALSE,
          error |-> NoError, initialized |-> FALSE]

\* newState of loadModels (316-322)
loadedModelsState(models, modelNameToId) ==
    [models |-> models, modelNameToId |-> modelNameToId, isLoading |-> FALSE,
     error |-> NoError, initialized |-> TRUE]

\* modelsCache = newState; setModelsState(newState) (324-326)
loadModels_store(c, newState) ==
    /\ modelsCache' = newState
    /\ cacheWrites' = cacheWrites + 1
    /\ hooks' = [hooks EXCEPT ![c] = [pc |-> "idle", state |-> newState]]

\* the catch of loadModels (327-336)
loadModels_failed(c) ==
    /\ hooks' = [hooks EXCEPT ![c] =
                   [pc |-> "idle",
                    state |-> [hooks[c].state EXCEPT !.error = "rpcError",
                                                     !.isLoading = FALSE]]]
    /\ UNCHANGED <<modelsCache, cacheWrites>>

\* a consumer mounts: useState, then the effect calls loadModels, which
\* returns at once if (modelsState.initialized || modelsCache?.initialized)
useInitializeModels_mount(c) ==
    /\ hooks[c] = NoHook
    /\ LET state == initialModelsState IN
       IF state.initialized \/ (modelsCache # NoCache /\ modelsCache.initialized)
       THEN /\ hooks' = [hooks EXCEPT ![c] = [pc |-> "idle", state |-> state]]
            /\ UNCHANGED fetches
       ELSE /\ hooks' = [hooks EXCEPT ![c] =
                           [pc |-> "modelNamesAndIds",
                            state |-> [state EXCEPT !.isLoading = TRUE]]]
            /\ fetches' = fetches + 1
    /\ UNCHANGED <<modelsCache, engModels, cacheWrites, outsideModels>>

\* await client.modelNamesAndIds() returns
loadModels_modelNamesAndIds(c) ==
    /\ hooks[c].pc = "modelNamesAndIds"
    /\ \/ LET modelNameToId == modelNamesAndIds IN
          IF modelIdsOf(modelNameToId) # {}
          THEN /\ hooks' = [hooks EXCEPT ![c] =
                              [pc |-> "findModelsById", state |-> hooks[c].state,
                               modelNameToId |-> modelNameToId]]
               /\ UNCHANGED <<modelsCache, cacheWrites>>
          ELSE loadModels_store(c, loadedModelsState({}, modelNameToId))
       \/ loadModels_failed(c)
    /\ UNCHANGED <<engModels, fetches, outsideModels>>

\* await client.findModelsById(modelIds) returns
loadModels_findModelsById(c) ==
    /\ hooks[c].pc = "findModelsById"
    /\ \/ LET modelNameToId == hooks[c].modelNameToId IN
          loadModels_store(c, loadedModelsState(
                                 findModelsById(modelIdsOf(modelNameToId)),
                                 modelNameToId))
       \/ loadModels_failed(c)
    /\ UNCHANGED <<engModels, fetches, outsideModels>>

\* the collection gains a note type while the app runs (added in the engine's
\* own UI); the engine is shared with other clients
engine_modelAdded ==
    /\ \E longer \in ModelSets :
          /\ Len(longer) = Len(engModels) + 1
          /\ engModels' = longer
    /\ UNCHANGED <<modelsCache, hooks, fetches, cacheWrites, outsideModels>>

ModelsInit ==
    /\ StudyPageInit
    /\ NoCardContent
    /\ NoCall
    /\ NoAutoPlay
    /\ NoProbe
    /\ modelsCache = NoCache
    /\ hooks = [c \in Consumers |-> NoHook]
    /\ engModels \in ModelSets
    /\ fetches = 0
    /\ cacheWrites = 0

ModelsNext ==
    \/ \E c \in Consumers : useInitializeModels_mount(c)
    \/ \E c \in Consumers : loadModels_modelNamesAndIds(c)
    \/ \E c \in Consumers : loadModels_findModelsById(c)
    \/ engine_modelAdded

ModelsSpec == ModelsInit /\ [][ModelsNext]_vars

\* ========================================================================
\* CardContent: the auto-play effect (app/components/ThemeSwitcher.tsx 279-319)
\* ========================================================================
\* A CardContent rendered with autoPlayAudio = true.  The effect depends on
\* [autoPlayAudio, processedHtml]: every render with another processedHtml
\* clears the pending timeout (cleanup, 318) and sets a new one (282).  The
\* callback of a timeout that fired is not stopped by the cleanup.

\* containerRef.current.querySelectorAll("audio"), in document order (283):
\* the audio element of a control (193), a resolved and an unresolved <audio>
audioElements(markup) ==
    SelectSeq(markup, LAMBDA n : n.t \in {"button", "audioData", "audio"})

\* how the promise awaited for an element is resolved (294-307)
Settled == {"ended", "error", "rejected"}

\* a loop that calls play() on every element from i on without awaiting
playElement_noAwait(run, i) ==
    IF i > Len(run.elements) THEN [run EXCEPT !.i = i]
    ELSE [run EXCEPT !.i = i,
                     !.playback = [k \in 1..Len(run.elements) |->
                                     IF k >= i THEN "playing" ELSE @[k]]]

\* iteration i of the loop: the handlers are set and audio.play() is called,
\* then the callback awaits (288-307); past the last element it returns
playElement(run, i) ==
    IF i > Len(run.elements) THEN [run EXCEPT !.i = i]
    ELSE [run EXCEPT !.i = i, !.playback[i] = "playing"]

\* the calls that have not returned, and the latest call
running(calls) ==
    LET n == Len(calls) IN
    IF n = 0 THEN calls
    ELSE SelectSeq(SubSeq(calls, 1, n - 1),
                   LAMBDA run : run.i <= Len(run.elements)) \o <<calls[n]>>

\* the parent renders the instance with another card side: the effect on
\* [html] sets processedHtml to it (52-55), a pass starts (57-61), and the
\* render with the new processedHtml runs the auto-play effect
autoPlay_htmlChanged(h) ==
    /\ mounted
    /\ changes < MaxRenders
    /\ h # html
    /\ html' = h
    /\ processedHtml' = h
    /\ isProcessing' = TRUE
    /\ changes' = changes + 1
    /\ timer' = TRUE
    /\ UNCHANGED <<mounted, audioCache, passes, requested, runs,
                   outsideAutoPlay>>

\* the pass commits its markup (161-162); the auto-play effect runs again
\* when the markup differs from the one rendered
autoPlay_committed(markup) ==
    /\ isProcessing
    /\ processedHtml' = markup
    /\ isProcessing' = FALSE
    /\ timer' = (timer \/ markup # processedHtml)
    /\ UNCHANGED <<mounted, html, audioCache, passes, changes, requested,
                   runs, outsideAutoPlay>>

\* the timeout fires: the callback collects the audio elements and runs up
\* to its first await
autoPlay_timeout ==
    /\ timer
    /\ timer' = FALSE
    /\ LET elements == audioElements(processedHtml)
           run == [elements |-> elements, i |-> 0,
                   playback |-> [k \in 1..Len(elements) |-> "idle"]]
       IN  runs' = running(Append(runs, playElement(run, 1)))
    /\ UNCHANGED <<cardContentVars, outsideAutoPlay>>

\* a callback whose promise is resolved by onended only
audio_settled_failureBlocks(r, how) ==
    /\ r \in 1..Len(runs)
    /\ LET run == runs[r]
           failed == [run EXCEPT !.playback[run.i] = how]
       IN
       /\ run.i \in 1..Len(run.elements)
       /\ run.playback[run.i] = "playing"
       /\ runs' = running([runs EXCEPT ![r] =
                     IF how = "ended" THEN playElement(failed, run.i + 1)
                     ELSE failed])
    /\ UNCHANGED <<timer, cardContentVars, outsideAutoPlay>>

\* the element a callback awaits ends, fires an error, or its play() is
\* rejected: resolve, and the callback goes on with the next iteration
audio_settled(r, how) ==
    /\ r \in 1..Len(runs)
    /\ LET run == runs[r] IN
       /\ run.i \in 1..Len(run.elements)
       /\ run.playback[run.i] = "playing"
       /\ runs' = running([runs EXCEPT ![r] =
                     playElement([run EXCEPT !.playback[run.i] = how], run.i + 1)])
    /\ UNCHANGED <<timer, cardContentVars, outsideAutoPlay>>

\* after the first render and its effects: a pass over html is under way
AutoPlayInit ==
    /\ StudyPageInit
    /\ NoModels
    /\ NoCall
    /\ NoProbe
    /\ mounted = TRUE
    /\ html \in Htmls
    /\ processedHtml = html
    /\ isProcessing = TRUE
    /\ audioCache = {}
    /\ passes = {}
    /\ changes = 0
    /\ requested = {}
    /\ timer = TRUE
    /\ runs = <<>>

AutoPlayNext ==
    \/ \E h \in Htmls : autoPlay_htmlChanged(h)
    \/ \E markup \in Resolutions(html) : autoPlay_committed(markup)
    \/ autoPlay_timeout
    \/ \E r \in 1..Len(runs), how \in Settled : audio_settled(r, how)

AutoPlaySpec == AutoPlayInit /\ [][AutoPlayNext]_vars

\* the timeout fires, and every element that was started ends or fires an
\* error
AutoPlayFair ==
    /\ AutoPlaySpec
    /\ WF_vars(autoPlay_timeout)
    /\ WF_vars(\E r \in 1..Len(runs), how \in {"ended", "error"} :
                  audio_settled(r, how))

\* ========================================================================
\* AnkiConnectClient.request (app/lib/useAnkiConnect.ts 526-585)
\* ========================================================================
\* JSON values of the response body, as far as request looks at them
JNull == [json |-> "null"]
JAbsent == [json |-> "undefined"]
JString(s) == [json |-> "string", s |-> s]
JNumber(n) == [json |-> "number", n |-> n]

\* JavaScript truthiness, as tested by if (data.error)
truthy(v) ==
    \/ v.json = "string" /\ v.s # ""
    \/ v.json = "number" /\ v.n # 0

\* what the transport can deliver for one POST
\*   fetch rejects: TypeError (network unreachable), AbortError (timeout)
\*   fetch resolves with a status; response.json() then throws SyntaxError,
\*   yields null, or yields an object with (or without) error and result
Statuses == {200, 403, 500}
ErrorFields == {JNull, JAbsent, JString(""), JString("deck was not found")}
ResultFields == {JNull, JNumber(6), JString("AAAA")}
Bodies ==
    {[parse |-> "SyntaxError"], [parse |-> "null"]}
    \cup {[parse |-> "object", error |-> e, result |-> v] :
            e \in ErrorFields, v \in ResultFields}
Transports ==
    {[fetch |-> "TypeError"], [fetch |-> "AbortError"]}
    \cup {[fetch |-> "response", status |-> s, body |-> b] :
            s \in Statuses, b \in Bodies}
Actions == {"version", "findCards", "retrieveMediaFile"}

\* response.ok
ok(status) == status >= 200 /\ status <= 299

AnkiConnectConnectionError(message) ==
    [kind |-> "AnkiConnectConnectionError", message |-> message]
AnkiConnectAPIError(message) ==
    [kind |-> "AnkiConnectAPIError", message |-> message]
Result(value) == [kind |-> "result", value |-> value]

\* the catch block (566-583); thrown is the name of a foreign exception
request_catch(thrown) ==
    IF thrown = "TypeError"
    THEN AnkiConnectConnectionError("Failed to connect to AnkiConnect")
    ELSE AnkiConnectConnectionError("Unknown error occurred")

\* await fetch(...) settles (545-560)
request_fetch ==
    /\ call.fn = "request" /\ call.pc = "fetch"
    /\ LET tr == call.transport IN
       IF tr.fetch # "response"
       THEN /\ callResult' = request_catch(tr.fetch)
            /\ call' = [call EXCEPT !.pc = "done"]
       ELSE IF ~ok(tr.status)
       THEN \* thrown inside the try, rethrown as it is by the catch
            /\ callResult' = AnkiConnectConnectionError("HTTP status")
            /\ call' = [call EXCEPT !.pc = "done"]
       ELSE /\ call' = [call EXCEPT !.pc = "json"]
            /\ UNCHANGED callResult
    /\ UNCHANGED outsideCall

\* await response.json() settles (562-568)
request_json ==
    /\ call.fn = "request" /\ call.pc = "json"
    /\ LET data == call.transport.body IN
       callResult' =
         IF data.parse = "SyntaxError" THEN request_catch("SyntaxError")
         ELSE IF data.parse = "null"
         THEN \* data.error on null throws TypeError
              request_catch("TypeError")
         ELSE IF truthy(data.error) THEN AnkiConnectAPIError(data.error.s)
         ELSE Result(data.result)
    /\ call' = [call EXCEPT !.pc = "done"]
    /\ UNCHANGED outsideCall

\* ========================================================================
\* createAudioButton and getMimeType
\* (app/components/ThemeSwitcher.tsx 164-214, 334-353)
\* ========================================================================
\* A file name is the sequence of its parts between dots, so that
\* filename.split(".").pop() is its last part.

\* const mimeTypes: Record<string, string> = { ... } (337-350)
mimeTypes ==
    [mp3 |-> "audio/mpeg", wav |-> "audio/wav", ogg |-> "audio/ogg",
     m4a |-> "audio/mp4", flac |-> "audio/flac", aac |-> "audio/aac",
     jpg |-> "image/jpeg", jpeg |-> "image/jpeg", png |-> "image/png",
     gif |-> "image/gif", webp |-> "image/webp", svg |-> "image/svg+xml"]

\* mimeTypes is an object literal: a key it does not define is looked up in
\* Object.prototype
ObjectPrototype ==
    {"constructor", "toString", "valueOf", "hasOwnProperty", "__proto__"}

\* String.prototype.toLowerCase on the last parts that occur
toLowerCase(s) ==
    CASE s = "MP3" -> "mp3"
      [] s = "Jpg" -> "jpg"
      [] OTHER -> s

\* the last parts of the file names studied
Extensions == DOMAIN mimeTypes \cup ObjectPrototype \cup {"MP3", "Jpg", "txt", ""}

\* getMimeType(filename), as "${mimeType}" prints what it returns (334-353)
getMimeType(filename) ==
    LET ext == toLowerCase(filename[Len(filename)]) IN
    IF ext \in DOMAIN mimeTypes THEN mimeTypes[ext]
    ELSE IF ext \in ObjectPrototype THEN "[inherited " \o ext \o "]"
    ELSE "application/octet-stream"

\* what createAudioButton returns with a payload (176-207): the control and
\* the src of its <audio>, as the pieces the template joins
audioButton(filename, base64Data) ==
    [t |-> "button", title |-> filename,
     src |-> <<"data:", getMimeType(filename), ";base64,", base64Data>>]

\* what it returns without one (213)
label(filename) == [t |-> "label", text |-> filename]

\* audioCache.current.get(filename) (166-168)
createAudioButton_call ==
    /\ call.fn = "createAudioButton" /\ call.pc = "get"
    /\ IF truthy(call.cached)
       THEN /\ callResult' = audioButton(call.filename, call.cached.s)
            /\ call' = [call EXCEPT !.pc = "done"]
       ELSE /\ call' = [call EXCEPT !.pc = "retrieveMediaFile"]
            /\ UNCHANGED callResult
    /\ UNCHANGED outsideCall

\* await client.retrieveMediaFile(filename) settles (169-213)
createAudioButton_retrieveMediaFile ==
    /\ call.fn = "createAudioButton" /\ call.pc = "retrieveMediaFile"
    /\ callResult' = IF ~call.rejects /\ truthy(call.data)
                     THEN audioButton(call.filename, call.data.s)
                     ELSE label(call.filename)
    /\ call' = [call EXCEPT !.pc = "done"]
    /\ UNCHANGED outsideCall

\* ========================================================================
\* extractAudioFilename (app/components/ThemeSwitcher.tsx 216-274)
\* ========================================================================
\* A text of a card is the sequence of its tokens; the path of a token is the
\* sequence of the segments between slashes of the file it names.
\*   sound: [sound:path]      src: src="path"
\*   bare:  path, on its own  text: anything else
Token(kind, path) == [k |-> kind, path |-> path]

\* the texts a card is made of
Texts ==
    {<<>>,
     <<Token("sound", <<"a.mp3">>)>>,
     <<Token("src", <<"media", "c.ogg">>), Token("bare", <<"b.mp3">>)>>,
     <<Token("sound", <<"v.mp4">>), Token("src", <<"p.png">>)>>}

\* the three patterns, applied to a text (241, 250-252, 262-264): the
\* captures of the matches in the order of the text.  The second and the
\* third pattern demand one of the extensions mp3|wav|ogg|m4a|flac|aac; the
\* third one also matches the file name inside a directive or an attribute.
matchAll(text, pattern) ==
    LET last(path) == path[Len(path)]
        audio(path) == last(path) \in {"a.mp3", "b.mp3", "c.ogg"}
        hit(tok) ==
            CASE pattern = "sound" -> tok.k = "sound"
              [] pattern = "src" -> tok.k = "src" /\ audio(tok.path)
              [] pattern = "file" -> tok.k \in {"sound", "src", "bare"} /\ audio(tok.path)
        hits == SelectSeq(text, hit)
    IN  [i \in 1..Len(hits) |-> IF pattern = "sound" THEN JString(hits[i].path)
                                ELSE JString(<<last(hits[i].path)>>)]

RECURSIVE join(_)
\* htmlSources.join(" ")
join(htmlSources) ==
    IF htmlSources = <<>> THEN <<>>
    ELSE Head(htmlSources) \o join(Tail(htmlSources))

\* an extractAudioFilename that tries the bare file names first
extractAudioFilename_fileFirst(card, side, index) ==
    LET htmlSources == <<IF side = "q" THEN card.question ELSE card.answer,
                         IF side = "q" THEN card.frontSide ELSE card.backSide>>
                       \o card.fields
        combinedHtml == join(htmlSources)
        soundMatches == matchAll(combinedHtml, "sound")
        srcMatches == matchAll(combinedHtml, "src")
        fileMatches == matchAll(combinedHtml, "file")
    IN  IF index < Len(fileMatches) THEN fileMatches[index + 1]
        ELSE IF index < Len(soundMatches) THEN soundMatches[index + 1]
        ELSE IF index < Len(srcMatches) THEN srcMatches[index + 1]
        ELSE JNull

\* extractAudioFilename(card, side, index); card.fields is the sequence of
\* the field values, Object.values(card.fields) (227-234)
extractAudioFilename(card, side, index) ==
    LET htmlSources == <<IF side = "q" THEN card.question ELSE card.answer,
                         IF side = "q" THEN card.frontSide ELSE card.backSide>>
                       \o card.fields
        combinedHtml == join(htmlSources)
        soundMatches == matchAll(combinedHtml, "sound")
        srcMatches == matchAll(combinedHtml, "src")
        fileMatches == matchAll(combinedHtml, "file")
    IN  IF index < Len(soundMatches) THEN soundMatches[index + 1]
        ELSE IF index < Len(srcMatches) THEN srcMatches[index + 1]
        ELSE IF index < Len(fileMatches) THEN fileMatches[index + 1]
        ELSE JNull

\* the call made by processContent for [anki:play:side:index] (90)
extractAudioFilename_call ==
    /\ call.fn = "extractAudioFilename" /\ call.pc = "call"
    /\ callResult' = Result(extractAudioFilename(call.card, call.side, call.index))
    /\ call' = [call EXCEPT !.pc = "done"]
    /\ UNCHANGED outsideCall

\* ========================================================================
\* AnkiConnectClient.setCardFlag (app/lib/useAnkiConnect.ts 733-742)
\* ========================================================================
\* call.native and call.fallback are what request("setCardFlag") and
\* request("setSpecificValueOfCard") settle with; call.issued lists the
\* actions requested so far

\* the error of the native action is thrown again when the fallback fails
setCardFlag_setSpecificValueOfCard_nativeError ==
    /\ call.fn = "setCardFlag" /\ call.pc = "setSpecificValueOfCard"
    /\ callResult' = IF call.fallback.kind = "result" THEN call.fallback
                     ELSE call.native
    /\ call' = [call EXCEPT !.pc = "done"]
    /\ UNCHANGED outsideCall

\* await this.request("setCardFlag", ...) settles (736-741): its result is
\* returned; on any error the catch block calls setSpecificValueOfCard
setCardFlag_request ==
    /\ call.fn = "setCardFlag" /\ call.pc = "setCardFlag"
    /\ IF call.native.kind = "result"
       THEN /\ callResult' = call.native
            /\ call' = [call EXCEPT !.pc = "done"]
       ELSE /\ call' = [call EXCEPT !.pc = "setSpecificValueOfCard",
                                    !.issued = Append(@, "setSpecificValueOfCard")]
            /\ UNCHANGED callResult
    /\ UNCHANGED outsideCall

\* the promise of setSpecificValueOfCard, returned from the catch block
\* without a handler, settles the call (726-728, 741)
setCardFlag_setSpecificValueOfCard ==
    /\ call.fn = "setCardFlag" /\ call.pc = "setSpecificValueOfCard"
    /\ callResult' = call.fallback
    /\ call' = [call EXCEPT !.pc = "done"]
    /\ UNCHANGED outsideCall

\* ========================================================================
\* The sort-field preview of startSession (app/routes/study.tsx 105-118)
\* ========================================================================
\* A string is the sequence of its characters.

\* t("study.unknown"): the translation is looked up at run time; one symbol
\* stands for its text
unknown == <<"study.unknown">>

\* field values of a card
FieldValues ==
    {<<>>,
     <<"<", "b", ">", "P", "a", "r", "i", "s", "<", "/", "b", ">">>,
     <<"<", "d", "i", "v", ">", "P", "a", "r", "i", "s", " ", "<", "/", "d", "i", "v", ">">>,
     <<"<", "i", "m", "g", " ", "a", "l", "t", "=", "\"", "a", ">", "b", "\"", ">", "P", "a", "r", "i", "s">>,
     <<"1", " ", "<", " ", "2", " ", ">", " ", "1">>,
     [i \in 1..120 |-> "x"],
     <<"<", "b", ">">> \o [i \in 1..101 |-> "x"] \o <<"<", "/", "b", ">">>}

RECURSIVE replace(_)
\* value.replace(/<[^>]*>/g, ""): from every "<" that has a ">" after it, up
\* to the first such ">", scanning from the left
replace(value) ==
    LET n == Len(value)
        closeAfter(i) == {j \in (i + 1)..n : value[j] = ">"}
        open == {i \in 1..n : value[i] = "<" /\ closeAfter(i) # {}}
    IN  IF open = {} THEN value
        ELSE LET i == CHOOSE i \in open : \A k \in open : i <= k
                 j == CHOOSE j \in closeAfter(i) : \A k \in closeAfter(i) : j <= k
             IN  SubSeq(value, 1, i - 1) \o replace(SubSeq(value, j + 1, n))

\* String.prototype.trim
trim(s) ==
    LET kept == {i \in 1..Len(s) : s[i] # " "} IN
    IF kept = {} THEN <<>>
    ELSE SubSeq(s, CHOOSE i \in kept : \A k \in kept : i <= k,
                   CHOOSE i \in kept : \A k \in kept : i >= k)

\* s.substring(0, end)
substring(s, end) == IF Len(s) <= end THEN s ELSE SubSeq(s, 1, end)

\* Object.entries(card.fields).find(([_, field]) => field.order === 0), the
\* tags replaced and the result trimmed, or the placeholder (107-112); cut
\* to 100 characters (116)
sortField(fields) ==
    LET withOrder0 == {i \in 1..Len(fields) : fields[i].order = 0} IN
    substring(IF withOrder0 # {}
              THEN trim(replace(fields[CHOOSE i \in withOrder0 :
                                         \A k \in withOrder0 : i <= k].value))
              ELSE unknown, 100)

\* the callback of allCardsInfo.map on one card (105-118)
startSession_cardList ==
    /\ call.fn = "cardList" /\ call.pc = "map"
    /\ callResult' = Result([cardId |-> call.card.cardId,
                             sortField |-> sortField(call.card.fields)])
    /\ call' = [call EXCEPT !.pc = "done"]
    /\ UNCHANGED outsideCall

\* ========================================================================
\* One call of one of these functions, on inputs from bounded sets
\* ========================================================================
CallInit ==
    /\ StudyPageInit
    /\ NoCardContent
    /\ NoModels
    /\ NoAutoPlay
    /\ NoProbe
    /\ \/ \E a \in Actions, tr \in Transports :
             call = [fn |-> "request", action |-> a, transport |-> tr,
                     pc |-> "fetch"]
       \/ \E stem \in {<<"foo">>, <<"a", "b">>}, ext \in Extensions,
             cached \in {JAbsent, JString("QUFB")},
             settled \in {<<TRUE, JNull>>, <<FALSE, JNull>>,
                          <<FALSE, JString("")>>, <<FALSE, JString("AAAA")>>} :
             call = [fn |-> "createAudioButton", filename |-> stem \o <<ext>>,
                     cached |-> cached, rejects |-> settled[1],
                     data |-> settled[2], pc |-> "get"]
       \/ \E question \in Texts, answer \in Texts, frontSide \in Texts,
             backSide \in Texts, field \in Texts, side \in {"q", "a"},
             index \in 0..MaxIndex :
             call = [fn |-> "extractAudioFilename",
                     card |-> [question |-> question, answer |-> answer,
                               frontSide |-> frontSide, backSide |-> backSide,
                               fields |-> <<field>>],
                     side |-> side, index |-> index, pc |-> "call"]
       \/ \E native \in {Result(JNull), AnkiConnectAPIError("unsupported action"),
                          AnkiConnectConnectionError("Failed to connect to AnkiConnect")},
             fallback \in {Result(JNull), AnkiConnectAPIError("card was not found"),
                            AnkiConnectConnectionError("Failed to connect to AnkiConnect")},
             cardId \in Cards, flag \in 0..4 :
             call = [fn |-> "setCardFlag", cardId |-> cardId, flag |-> flag,
                     native |-> native, fallback |-> fallback,
                     issued |-> <<"setCardFlag">>, pc |-> "setCardFlag"]
       \/ \E cardId \in Cards, value \in FieldValues,
             orders \in {<<0, 1>>, <<1, 0>>, <<1, 2>>, <<0>>, <<>>} :
             call = [fn |-> "cardList",
                     card |-> [cardId |-> cardId,
                               fields |-> [i \in 1..Len(orders) |->
                                   [value |-> IF orders[i] = 0 THEN value
                                              ELSE <<"B", "a", "c", "k">>,
                                    order |-> orders[i]]]],
                     pc |-> "map"]
    /\ callResult = NoReturn

CallNext ==
    \/ request_fetch
    \/ request_json
    \/ createAudioButton_call
    \/ createAudioButton_retrieveMediaFile
    \/ extractAudioFilename_call
    \/ setCardFlag_request
    \/ setCardFlag_setSpecificValueOfCard
    \/ startSession_cardList

CallSpec == CallInit /\ [][CallNext]_vars

\* ========================================================================
\* Properties
\* ========================================================================
\* the suspended handler op resumes in this step
Resumed(op) == CopiesIn(op, ops') < CopiesIn(op, ops)
\* ... with the result of its request
Resolved(op) == Resumed(op) /\ ~rejected'
\* ... with the error its request threw
Rejected(op) == Resumed(op) /\ rejected'

Bucket(st, ease) ==
    IF ease = 1 THEN st.again
    ELSE IF ease = 2 THEN st.hard
    ELSE IF ease = 3 THEN st.good
    ELSE st.easy

\* the grade of a call is counted: studied and the one bucket of ease go up
\* by one against the stats of the session the call was invoked on
Counted(s, ease, after) ==
    /\ after.sessionStats.total = s.sessionStats.total
    /\ after.sessionStats.studied = s.sessionStats.studied + 1
    /\ \A e \in Eases :
         Bucket(after.sessionStats, e)
           = Bucket(s.sessionStats, e) + (IF e = ease THEN 1 ELSE 0)
    /\ after.answeredCardIds = s.answeredCardIds \cup {s.cardQueue[s.currentIndex + 1]}

\* C1: answerCard(ease) invoked on a session whose current card is at index i
\* with i + 1 < length(cardQueue), all requests succeeding: the grade
\* (cardQueue[i], ease) is submitted exactly once (appended when answerCards
\* resolves, nothing more when cardInfo resolves); the session then has
\* studied + 1, the one bucket of ease + 1, cardQueue[i] in answeredCardIds,
\* currentIndex = i + 1, currentCard = the snapshot of cardQueue[i + 1]
\* fetched from the engine, and showAnswer = false.
C1_AnswerAdvances ==
    [][\A op \in InFlight :
        (Resolved(op) /\ op.kind = "answerCard" /\ hasNext(op.s))
        => LET s == op.s
               ease == op.arg
           IN  IF op.pc = "answerCards"
               THEN /\ graded' = Append(graded,
                          [cardId |-> s.cardQueue[s.currentIndex + 1], ease |-> ease])
                    /\ session' = session
                    /\ BagIn([op EXCEPT !.pc = "cardInfo"], ops')
               ELSE /\ graded' = graded
                    /\ Counted(s, ease, session')
                    /\ session'.currentIndex = s.currentIndex + 1
                    /\ session'.currentCard = cardInfo(s.cardQueue[s.currentIndex + 2])
                    /\ session'.showAnswer = FALSE
                    /\ session'.cardQueue = s.cardQueue
      ]_vars

C1_Witness ==
    /\ session # NoSession
    /\ session.currentIndex = 1
    /\ session.currentCard # NoCard
    /\ session.currentCard.cardId = session.cardQueue[2]
    /\ session.sessionStats.studied = 1
    /\ session.answeredCardIds = {session.cardQueue[1]}
    /\ ~session.showAnswer
    /\ Len(graded) = 1 /\ graded[1].cardId = session.cardQueue[1]

\* C2: answerCard resolving on the last card of the queue leaves
\* currentCard = none and currentIndex where it was, and still records the
\* grade in sessionStats and answeredCardIds.
C2_AnswerLastCompletes ==
    [][\A op \in InFlight :
        (Resolved(op) /\ op.kind = "answerCard"
            /\ op.s.currentIndex = Len(op.s.cardQueue) - 1)
        => LET s == op.s
           IN  /\ op.pc = "answerCards"
               /\ session'.currentCard = NoCard
               /\ session'.currentIndex = s.currentIndex
               /\ Counted(s, op.arg, session')
      ]_vars

C2_Witness ==
    /\ session # NoSession
    /\ session.currentCard = NoCard
    /\ session.currentIndex = Len(session.cardQueue) - 1
    /\ session.sessionStats.studied >= 1
    /\ session.cardQueue[session.currentIndex + 1] \in session.answeredCardIds

\* C3: in every reachable session state studied = again + hard + good + easy.
C3_StudiedIsSumOfBuckets ==
    session # NoSession =>
        session.sessionStats.studied
          = session.sessionStats.again + session.sessionStats.hard
            + session.sessionStats.good + session.sessionStats.easy

C3_Witness ==
    /\ session # NoSession
    /\ session.sessionStats.studied = 2
    /\ session.sessionStats.good = 1
    /\ session.sessionStats.again = 1

\* two consecutive states hold the same session (the one a startSession call
\* created), possibly with different contents
SameSession == session # NoSession /\ session' # NoSession /\ session'.sid = session.sid

\* C4: within one session sessionStats.total never changes and none of
\* studied, again, hard, good, easy decreases from one session state to the
\* next, whatever operations complete in whatever order.
C4_StatsMonotone ==
    [][SameSession =>
        /\ session'.sessionStats.total = session.sessionStats.total
        /\ session'.sessionStats.studied >= session.sessionStats.studied
        /\ \A e \in Eases :
             Bucket(session'.sessionStats, e) >= Bucket(session.sessionStats, e)
      ]_vars

\* C5: length(cardList) = length(cardQueue) = sessionStats.total in every
\* state in which a session exists, and no step within a session changes
\* cardQueue, cardList or total.
C5_QueueInvariant ==
    /\ [](session # NoSession =>
            /\ Len(session.cardList) = Len(session.cardQueue)
            /\ Len(session.cardQueue) = session.sessionStats.total)
    /\ [][SameSession =>
            /\ session'.cardQueue = session.cardQueue
            /\ session'.cardList = session.cardList
            /\ session'.sessionStats.total = session.sessionStats.total
         ]_vars

C5_Witness ==
    /\ session # NoSession
    /\ Len(session.cardQueue) = 2
    /\ session.sessionStats.total = 2
    /\ session.sessionStats.studied = 2

\* C6: whenever a session exists and currentCard is present,
\* 0 <= currentIndex < length(cardQueue).
C6_IndexInBounds ==
    (session # NoSession /\ session.currentCard # NoCard) =>
        /\ 0 <= session.currentIndex
        /\ session.currentIndex < Len(session.cardQueue)

\* the last position was reached by a jump: nothing was graded, suspended or
\* buried
C6_Witness ==
    /\ session # NoSession /\ session.currentCard # NoCard
    /\ session.currentIndex = Len(session.cardQueue) - 1
    /\ session.currentIndex > 0
    /\ graded = <<>> /\ engSuspended = {} /\ engBuried = {}

\* C7: whenever currentCard is present, currentCard.cardId =
\* cardQueue[currentIndex], also after completions of overlapping operations.
C7_CardMatchesIndex ==
    (session # NoSession /\ session.currentCard # NoCard) =>
        session.currentCard.cardId = session.cardQueue[session.currentIndex + 1]

\* one of two overlapping operations has written the session while the other,
\* an answerCard invoked on the session as it was before, is still in flight
C7_Witness ==
    /\ session # NoSession /\ session.currentCard # NoCard
    /\ \E op \in InFlight :
         /\ op.kind = "answerCard"
         /\ op.s.sid = session.sid
         /\ op.s.currentIndex # session.currentIndex

\* C8: when a request of answerCard fails (the grade submission, or the fetch
\* of the next snapshot), the step that handles the failure leaves the session
\* as it is, sets an error message and clears the busy indicator.
C8_AnswerFailureKeepsSession ==
    [][\A op \in InFlight :
        (Rejected(op) /\ op.kind = "answerCard")
        => /\ session' = session
           /\ error' # NoError
           /\ isLoading' = FALSE
      ]_vars

\* the grade went through and the fetch of the next snapshot failed
C8_Witness ==
    /\ rejected
    /\ error # NoError
    /\ ~isLoading
    /\ ops = EmptyBag
    /\ started = 2
    /\ Len(graded) = 1
    /\ session # NoSession /\ session.sessionStats.studied = 0

\* C9: every operation in flight holds the busy indicator and at most one
\* session operation is in flight at any time.
C9_SingleFlight ==
    /\ \A op \in InFlight : isLoading
    /\ BagCardinality(ops) <= 1

\* C10: a successful startSession creates the session with cardQueue = the due
\* card ids, total = their number, the other counters 0, currentIndex = 0,
\* currentCard = the snapshot of cardQueue[0], showAnswer = false,
\* answeredCardIds = {} and sets isSessionActive.
C10_StartCreatesSession ==
    [][\A op \in InFlight :
        (Resolved(op) /\ op.kind = "startSession" /\ op.pc = "cardsInfo")
        => /\ isSessionActive' = TRUE
           /\ session' # NoSession
           /\ session'.cardQueue = op.dueCardIds
           /\ \A k \in 1..Len(op.cardIds) :
                op.dueStatus[k] <=>
                  \E j \in 1..Len(session'.cardQueue) : session'.cardQueue[j] = op.cardIds[k]
           /\ session'.sessionStats.total = Len(op.dueCardIds)
           /\ session'.sessionStats.studied = 0
           /\ \A e \in Eases : Bucket(session'.sessionStats, e) = 0
           /\ session'.currentIndex = 0
           /\ session'.currentCard = cardInfo(session'.cardQueue[1])
           /\ session'.showAnswer = FALSE
           /\ session'.answeredCardIds = {}
      ]_vars

C10_Witness ==
    /\ isSessionActive
    /\ session # NoSession
    /\ started = 1 /\ ops = EmptyBag
    /\ ~isLoading
    /\ session.cardQueue = <<102>>
    /\ session.currentCard.cardId = 102

\* C11: a startSession call that fails -- findCards returns no card ids,
\* areDue marks none of them due, or one of its three requests is rejected --
\* returns in that step without creating a session: session and
\* isSessionActive are left as they were (none and false when no other call
\* created one), an error message is set and the busy indicator is cleared;
\* after an empty findCards result the handler returns without an areDue or
\* cardsInfo request, and a cardsInfo request is only ever issued for a
\* non-empty list of due ids.
C11_FailedStartCreatesNothing ==
    [][\A op \in InFlight :
        (Resumed(op) /\ op.kind = "startSession")
        => LET returned == BagCardinality(ops') < BagCardinality(ops)
               noCards == ~rejected' /\ op.pc = "findCards" /\ Len(findCards(op.arg)) = 0
               noDue == ~rejected' /\ op.pc = "areDue" /\ returned
           IN  /\ (rejected' \/ noCards \/ noDue)
                  => /\ returned
                     /\ session' = session
                     /\ isSessionActive' = isSessionActive
                     /\ (started = 1 => session' = NoSession /\ ~isSessionActive')
                     /\ error' # NoError
                     /\ isLoading' = FALSE
                     /\ UNCHANGED <<started, graded, engSuspended, engBuried, engFlags>>
               /\ \A next \in BagToSet(ops') :
                     (next.kind = "startSession" /\ next.pc = "cardsInfo")
                     => Len(next.dueCardIds) > 0
      ]_vars

C11_Witness ==
    /\ error = "noCards"
    /\ session = NoSession
    /\ ~isSessionActive
    /\ ~isLoading
    /\ ~rejected
    /\ ops = EmptyBag
    /\ started = 1

\* C12: a jumpToCard call whose index is the current index returns at its
\* guard: session, isSessionActive, the busy indicator, the error, the
\* operations in flight and the engine are all unchanged, and no jumpToCard
\* request is ever in flight for the index its session was already at.
C12_JumpToCurrentIsNoop ==
    /\ [](\A op \in InFlight :
            op.kind = "jumpToCard" => op.arg # op.s.currentIndex)
    /\ [][noop' => UNCHANGED studyVars]_vars

C12_Witness ==
    /\ noop
    /\ session # NoSession
    /\ session.currentIndex = 1
    /\ ~isLoading
    /\ ops = EmptyBag

C16_EndSessionClears ==
    /\ []((ActiveView \/ CompletedView) => ENABLED endSession)
    /\ [][(isSessionActive /\ ~isSessionActive')
          => /\ session' = NoSession
             /\ UNCHANGED <<ops, started, error, isLoading,
                            graded, engSuspended, engBuried, engFlags>>
        ]_vars

C16_Witness ==
    /\ ~isSessionActive
    /\ session = NoSession
    /\ \E op \in InFlight : op.kind = "answerCard"

\* C17: a grade submission (an answerCard call reaching its answerCards
\* request) is started only in a state where the session exists, has a
\* current card, shows the answer, and no session operation is in flight.
C17_KeyGradesOnlyWhenIdle ==
    [][\A op \in BagToSet(ops') :
        (/\ op.kind = "answerCard"
         /\ op.pc = "answerCards"
         /\ CopiesIn(op, ops') > CopiesIn(op, ops))
        => /\ session # NoSession
           /\ session.currentCard # NoCard
           /\ session.showAnswer
           /\ ops = EmptyBag
      ]_vars

\* the pass ends in this step: it commits its content
Commits(pass) == pass \in passes /\ \A next \in passes' : next.id # pass.id

\* C18: a resolution pass that commits its result was started for the html
\* the instance is rendered with at that moment: after html changed from h1
\* to h2, no pass over h1 sets processedHtml.
C18_NoStaleCommit ==
    [][\A pass \in passes : Commits(pass) => pass.html = html]_vars

\* C19: every change of html starts a pass over the new html (or resolves it
\* on the spot when no media request is needed), and with every media
\* request returning the displayed markup is eventually, and from then on,
\* a resolution of the html the instance is rendered with.
C19_LatestHtmlResolved ==
    /\ [][html' # html
          => \/ \E pass \in passes' : pass.html = html' /\ pass.id = changes'
             \/ processedHtml' \in Resolutions(html')
        ]_vars
    /\ <>[](mounted /\ passes = {} /\ processedHtml \in Resolutions(html))

\* C20: however many consumers mount useInitializeModels and however their
\* loadModels calls overlap, at most one modelNamesAndIds request is issued
\* and modelsCache is assigned at most once.
C20_CacheWrittenOnce ==
    /\ fetches <= 1
    /\ cacheWrites <= 1

\* C21: once modelsCache is initialized, no step changes it (it stays
\* initialized, with the same models and modelNameToId) and no step issues
\* a modelNamesAndIds request.
C21_CacheFrozenOnceInitialized ==
    [][(modelsCache # NoCache /\ modelsCache.initialized)
       => /\ modelsCache' = modelsCache
          /\ fetches' = fetches
      ]_vars

\* C22: a finished request has returned the response's result exactly when
\* the status was a success, the body parsed to an object and its error was
\* null (or absent); it has thrown an AnkiConnectAPIError carrying the error
\* exactly when the parsed error was not null; and it has thrown an
\* AnkiConnectConnectionError for a rejected fetch, a non-success status and
\* a body that does not parse to an object.
C22_RequestOutcomes ==
    (call.fn = "request" /\ call.pc = "done")
    => LET tr == call.transport
           replied == tr.fetch = "response" /\ ok(tr.status)
                         /\ tr.body.parse = "object"
       IN  IF ~replied
           THEN callResult.kind = "AnkiConnectConnectionError"
           ELSE IF tr.body.error \in {JNull, JAbsent}
           THEN callResult = Result(tr.body.result)
           ELSE /\ callResult.kind = "AnkiConnectAPIError"
                /\ JString(callResult.message) = tr.body.error

\* C23: in every call of the auto-play callback, an element has been started
\* only if every element before it in document order has ended, fired an
\* error or had its play attempt rejected; so the elements of a pass are
\* started in document order and no two of them are playing at once.
C23_PlayedOneAfterTheOther ==
    \A r \in 1..Len(runs) :
        \A k \in 1..Len(runs[r].elements) :
            runs[r].playback[k] # "idle"
            => \A j \in 1..(k - 1) : runs[r].playback[j] \in Settled

\* a call has its first element settled and its second one playing
C23_Witness ==
    \E r \in 1..Len(runs) :
        /\ Len(runs[r].elements) >= 2
        /\ runs[r].playback[1] \in Settled
        /\ runs[r].playback[2] = "playing"

\* C24: when every started element ends or fires an error, the latest call
\* of the auto-play callback runs on the audio elements of the committed
\* markup and starts every one of them, whether or not elements before it
\* failed; no timeout stays pending.
C24_FailureDoesNotBlock ==
    <>[](/\ ~timer
         /\ runs # <<>>
         /\ LET last == runs[Len(runs)] IN
            /\ last.elements = audioElements(processedHtml)
            /\ \A k \in 1..Len(last.elements) : last.playback[k] # "idle")

\* an element failed and the element after it was started
C24_Witness ==
    /\ runs # <<>>
    /\ LET last == runs[Len(runs)] IN
       \E k \in 1..(Len(last.elements) - 1) :
           /\ last.playback[k] \in {"error", "rejected"}
           /\ last.playback[k + 1] # "idle"

\* C25: no step issues a retrieveMediaFile request for a file name that the
\* instance has already asked for.
C25_OneRequestPerFile ==
    [][\A p \in passes' \ passes : p.content[Head(p.todo)].f \notin requested]_vars

\* C26: whatever its requests returned, a pass ends by committing a markup
\* and clearing isProcessing; in that markup every directive with a file name
\* is a control or a label, every <audio> and <img> has either its data
\* source or the source it came with, and every other node is untouched; and
\* every pass does end.
C26_FailureDoesNotAbort ==
    /\ [][\A pass \in passes :
            Commits(pass)
            => /\ isProcessing' = FALSE
               /\ Len(processedHtml') = Len(pass.html)
               /\ \A k \in 1..Len(pass.html) :
                     LET n == pass.html[k]
                         m == processedHtml'[k]
                     IN  IF n.t = "sound" \/ (n.t = "play" /\ n.f # "")
                         THEN m \in {Node("button", n.f), Node("missing", n.f)}
                         ELSE IF n.t = "audio" THEN m \in {n, Node("audioData", n.f)}
                         ELSE IF n.t = "img" THEN m \in {n, Node("imgData", n.f)}
                         ELSE m = n
        ]_vars
    /\ <>[](passes = {} /\ ~isProcessing)

\* the request for one reference failed, the other reference is resolved and
\* the markup is committed
C26_Witness ==
    /\ processedHtml = <<Node("missing", "b.mp3"), Node("audioData", "c.ogg")>>
    /\ passes = {}
    /\ ~isProcessing

\* C27: the markup a pass commits holds no sound directive and no play
\* directive.
C27_NoRawDirective ==
    [][\A pass \in passes :
         Commits(pass)
         => \A k \in 1..Len(processedHtml') :
               processedHtml'[k].t \notin {"sound", "play"}
      ]_vars

\* C28: when createAudioButton fetches the file and the fetch returns a
\* non-empty base64 string d, it returns a control whose <audio> has the source "data:" mime ";base64,"
\* d, where mime is the table entry of the lower-cased last part of the file
\* name and application/octet-stream when the table has no such entry.
C28_DataSource ==
    (/\ call.fn = "createAudioButton" /\ call.pc = "done"
     /\ ~truthy(call.cached) /\ ~call.rejects
     /\ call.data.json = "string" /\ call.data.s # "")
    => LET ext == toLowerCase(call.filename[Len(call.filename)])
           mime == IF ext \in DOMAIN mimeTypes THEN mimeTypes[ext]
                   ELSE "application/octet-stream"
       IN  /\ callResult.t = "button"
           /\ callResult.src = <<"data:", mime, ";base64,", call.data.s>>

\* the n-th match (n counted from 0) of the first of the three patterns that
\* has an n-th match in the text, none when no pattern has one
NthMatch(text, n) ==
    LET patterns == <<"sound", "src", "file">>
        has(c) == n < Len(matchAll(text, patterns[c]))
    IN  IF \E c \in 1..3 : has(c)
        THEN LET first == CHOOSE c \in 1..3 : has(c) /\ \A b \in 1..(c - 1) : ~has(b)
             IN  matchAll(text, patterns[first])[n + 1]
        ELSE JNull

C30_NoSessionWithoutConnection ==
    ~isConnected => \A op \in InFlight : op.kind # "startSession"

\* C31: within one session studied counts exactly the grades the engine has
\* accepted.  Step by step: an answerCard call whose grade the engine has
\* accepted (answerCards resolved) leaves the session, when it returns, with
\* studied one higher than it was, also when its cardInfo request is
\* rejected; and studied changes only in a step in which an answerCard call
\* resumes with a result.
C31_StudiedCountsAcceptedGrades ==
    [][/\ \A op \in InFlight :
            (/\ Resumed(op) /\ op.kind = "answerCard"
             /\ session # NoSession /\ session.sid = op.s.sid
             /\ \/ op.pc = "cardInfo"
                \/ op.pc = "answerCards" /\ ~rejected' /\ ~hasNext(op.s))
            => /\ session' # NoSession
               /\ session'.sessionStats.studied = session.sessionStats.studied + 1
       /\ (SameSession /\ session'.sessionStats.studied # session.sessionStats.studied)
            => \E op \in InFlight :
                  Resumed(op) /\ op.kind = "answerCard" /\ ~rejected'
      ]_vars

\* C32: isSessionActive is true exactly when session is non-none, and a
\* response to an operation issued during a session never writes session
\* state after that session was ended: session leaves none only when a
\* startSession call returns, and an existing session is replaced by the
\* state of another session only when a startSession call returns, never
\* by a session older than itself.
C32_NoWriteAfterEnd ==
    [][/\ isSessionActive' <=> session' # NoSession
       /\ (session = NoSession /\ session' # NoSession)
            => \E op \in InFlight : Resumed(op) /\ op.kind = "startSession"
       /\ (session # NoSession /\ session' # NoSession
             /\ session'.sid # session.sid)
            => /\ \E op \in InFlight : Resumed(op) /\ op.kind = "startSession"
               /\ session'.sid > session.sid
      ]_vars

\* C33: in every reachable session state studied <= total (the remaining
\* count total - studied is never negative) and the number of answered
\* card ids equals studied.
C33_StudiedWithinTotal ==
    session # NoSession
        => /\ session.sessionStats.studied <= session.sessionStats.total
           /\ Cardinality(session.answeredCardIds) = session.sessionStats.studied

\* C34: the busy indicator isLoading is true exactly in the states in which
\* a startSession, answerCard or jumpToCard call is in flight: no call
\* returning clears it while another such call is outstanding, and it is
\* cleared when the last one has returned.
C34_BusyWhileInFlight ==
    isLoading <=> \E op \in InFlight :
                      op.kind \in {"startSession", "answerCard", "jumpToCard"}

\* C35: a session is completed (currentCard = none) only when every card of
\* cardQueue has been answered in the session or suspended or buried at the
\* engine.
C35_CompletedOnlyWhenAllProcessed ==
    (session # NoSession /\ session.currentCard = NoCard)
        => \A i \in 1..Len(session.cardQueue) :
              session.cardQueue[i] \in
                  session.answeredCardIds \cup engSuspended \cup engBuried

\* C36: at most one call of the auto-play callback is playing an element at
\* any time: once a later call has started, an earlier one has no element
\* playing and starts none.
C36_OnePassPlaying ==
    \A r1, r2 \in 1..Len(runs) :
        (/\ \E k \in 1..Len(runs[r1].elements) : runs[r1].playback[k] = "playing"
         /\ \E k \in 1..Len(runs[r2].elements) : runs[r2].playback[k] = "playing")
        => r1 = r2

\* C37: the cardQueue built by startSession holds exactly the ids of the
\* search result whose due flag is true, in the order of the search result,
\* and cardList[i].cardId = cardQueue[i] at every position i (the engine
\* answering its batch requests in request order).
C37_QueueIsDueInSearchOrder ==
    [][\A op \in InFlight :
        (Resolved(op) /\ op.kind = "startSession" /\ op.pc = "cardsInfo")
        => LET due == {k \in 1..Len(op.cardIds) : op.dueStatus[k]}
               queue == session'.cardQueue
           IN  /\ session' # NoSession
               /\ Len(queue) = Cardinality(due)
               /\ \A k \in due :
                    queue[Cardinality({m \in due : m <= k})] = op.cardIds[k]
               /\ Len(session'.cardList) = Len(queue)
               /\ \A i \in 1..Len(queue) : session'.cardList[i].cardId = queue[i]
      ]_vars

\* a session built from a search result whose first card is not due
C37_Witness ==
    /\ session # NoSession
    /\ started = 1 /\ ops = EmptyBag
    /\ session.cardQueue = <<102>>
    /\ session.cardList = <<[cardId |-> 102]>>
    /\ session.currentIndex = 0

\* C38: setCardFlag requests the native action first and the fallback action
\* if and only if the native action failed; the call succeeds iff the native
\* action or the fallback succeeded, and when both fail it throws the error
\* of the fallback.
C38_FallbackIffNativeFailed ==
    call.fn = "setCardFlag"
    => LET nativeFailed == call.native.kind # "result"
           fallbackFailed == call.fallback.kind # "result"
       IN  /\ call.issued[1] = "setCardFlag"
           /\ call.pc = "setCardFlag" => Len(call.issued) = 1
           /\ call.pc # "setCardFlag"
                => call.issued = IF nativeFailed
                                 THEN <<"setCardFlag", "setSpecificValueOfCard">>
                                 ELSE <<"setCardFlag">>
           /\ call.pc = "done"
                => /\ callResult.kind = "result"
                        <=> ~nativeFailed \/ ~fallbackFailed
                   /\ (nativeFailed /\ fallbackFailed) => callResult = call.fallback

\* both actions failed, with different errors
C38_Witness ==
    /\ call.fn = "setCardFlag" /\ call.pc = "done"
    /\ call.native.kind = "AnkiConnectAPIError"
    /\ call.fallback.kind = "AnkiConnectAPIError"
    /\ call.native # call.fallback
    /\ callResult = call.fallback

\* ---- markup tags, for C39 ----
\* A tag is "<" followed by a name, or by "/" and a name, up to the first
\* ">" that is not inside a double-quoted attribute value; an attribute value
\* opens with a quote that follows "=" after the name.
NameStart(s, i) ==
    /\ i <= Len(s)
    /\ s[i] \notin {"<", ">", " ", "\"", "/", "=", "1", "2"}

RECURSIVE TagEnd(_, _, _, _)
\* the position of the ">" that closes the tag being read at position i
\* (0: none); attrs: the name is past; quoted: inside an attribute value
TagEnd(s, i, attrs, quoted) ==
    IF i > Len(s) THEN 0
    ELSE IF quoted THEN TagEnd(s, i + 1, attrs, s[i] # "\"")
    ELSE IF s[i] = ">" THEN i
    ELSE IF s[i] = " " THEN TagEnd(s, i + 1, TRUE, FALSE)
    ELSE TagEnd(s, i + 1, attrs, attrs /\ s[i] = "\"" /\ s[i - 1] = "=")

RECURSIVE TagsRemoved(_)
TagsRemoved(s) ==
    LET isTag(i) == /\ s[i] = "<"
                    /\ \/ NameStart(s, i + 1)
                       \/ i + 1 <= Len(s) /\ s[i + 1] = "/" /\ NameStart(s, i + 2)
                    /\ TagEnd(s, i + 1, FALSE, FALSE) > 0
        tags == {i \in 1..Len(s) : isTag(i)}
    IN  IF tags = {} THEN s
        ELSE LET i == CHOOSE i \in tags : \A k \in tags : i <= k
             IN  SubSeq(s, 1, i - 1)
                   \o TagsRemoved(SubSeq(s, TagEnd(s, i + 1, FALSE, FALSE) + 1, Len(s)))

\* the fields of the card of a finished call that have order 0
Order0 == {i \in 1..Len(call.card.fields) : call.card.fields[i].order = 0}

\* C39: the preview computed for a card is the value of its field with
\* order 0 with all markup tags removed, cut to at most 100 characters, and
\* the unknown placeholder when the card has no field with order 0; every
\* preview has at most 100 characters.
C39_PreviewIsStrippedValue ==
    (call.fn = "cardList" /\ call.pc = "done")
    => LET preview == callResult.value.sortField IN
       /\ Len(preview) <= 100
       /\ Order0 = {} => preview = unknown
       /\ \A i \in Order0 :
            LET stripped == TagsRemoved(call.card.fields[i].value)
            IN  preview = IF Len(stripped) <= 100 THEN stripped
                          ELSE SubSeq(stripped, 1, 100)

====
